---- MODULE Spec2Model ----
(***************************************************************************)
(* The Snowflake session layer of the NYC operations dashboard             *)
(* (lib/snowflake.ts, kept as src/unnamed/part_005): credential            *)
(* resolution, the cached connection, and query with its bounded retry.    *)
(*                                                                         *)
(* One JavaScript turn (the code that runs between two awaits) is one      *)
(* action.  The only thing that can happen inside a turn is a write of the *)
(* OAuth token file by the hosting platform; getConnection is therefore    *)
(* cut once, between its own reads (lines 120-121) and the reads getConfig *)
(* makes when the options are built (line 133).                            *)
(***************************************************************************)
EXTENDS Naturals, Sequences, FiniteSets

\* ------------------------------------------------------------------ bounds
NumProcs == 2
MaxRetries == 2
MaxConns == 3
MaxPosts == 2

\* --------------------------------------------------------- program constants
DefaultRetries == 1
RetryableCode == 407002
TimeoutMs == 180000
JwtLifetime == 3600

\* ------------------------------------------------------------------ values
Procs == 1..NumProcs
Null == "<null>"
NoFile == "<ENOENT>"
NullConn == 0
NoCode == 0

AuthMethod == {"oauth", "keypair", "pat", "password", "browser"}

\* Contents the platform may give /snowflake/session/token.
TokenFileValues == {NoFile, "tok1", "tok2"}
\* Inline key material: a string, as the sequence of its characters.
KeyValues == {<<>>, <<"K", "\\", "n", "Y">>}
UserValues == {"bob"}
PatValues == {"", "p1", "p2"}
PasswordValues == {"", "pw"}
KeyPathValues == {"", "/keys/rsa_key.p8"}
\* The file at the key path: <<>> when there is none, <<content>> otherwise.
KeyFileValues == {<<>>, <<<<"F", "I", "L", "E">>>>}

\* JavaScript truthiness of a string-or-null value.
Truthy(v) == v # Null /\ v # ""

\* A nullable character string: <<>> is null, <<s>> is the string s.
NullKey == <<>>
KeyTruthy(k) == k # NullKey /\ k[1] # <<>>

\* String.prototype.includes on a message kept as its sequence of words.
Includes(msg, marker) ==
  \E i \in 1..Len(msg) :
    /\ i + Len(marker) - 1 <= Len(msg)
    /\ SubSeq(msg, i, i + Len(marker) - 1) = marker

ExpiredMarker == <<"OAuth", "access", "token", "expired">>
TerminatedMarker == <<"terminated", "connection">>

\* Errors the driver hands to the callbacks.  TerminatedErr is what the driver
\* answers for a statement on a destroyed connection.
ExpiredErr == [message |-> <<"Request", "failed:", "OAuth", "access", "token", "expired">>, code |-> 390318]
TerminatedErr == [message |-> <<"Unable", "to", "perform", "operation", "using", "terminated", "connection">>, code |-> RetryableCode]
CodeOnlyErr == [message |-> <<>>, code |-> RetryableCode]
SqlErr == [message |-> <<"SQL", "compilation", "error">>, code |-> 1003]
NoErr == [message |-> <<>>, code |-> NoCode]
Errors == {ExpiredErr, TerminatedErr, CodeOnlyErr, SqlErr}
Rows == [message |-> <<"rows">>, code |-> NoCode]

VARIABLES
  env,               \* process.env and the token file, as the code reads them
  connection,        \* let connection (line 6): a connection id or NullConn
  cachedToken,       \* let cachedToken (line 7)
  cachedAuthMethod,  \* let cachedAuthMethod (line 8)
  conns,             \* every connection object created so far: status, options
  pc,                \* where each caller of query is
  retries,           \* query's parameter retries in the running invocation
  authMethod,        \* getConnection's local authMethod
  token,             \* getConnection's local token
  conn,              \* the connection the caller's statement is submitted on
  budget,            \* history: retries as passed by the caller
  attempts,          \* history: invocations of query made for the call
  seen,              \* history: connection as getConnection found it
  prev,              \* history: the connection the call's last failure came from
  lastCall,          \* history: how the call that finished last ended: what
                     \* its last getConnection resolved, the driver's last
                     \* answer (resp) and what query threw (err)
  caught,            \* history: the error the catch block of query took in
                     \* the step just made, if it took one
  analyst            \* the POST handler of the analyst route: its position,
                     \* locals, timer and response

vars == <<env, connection, cachedToken, cachedAuthMethod, conns, pc, retries,
          authMethod, token, conn, budget, attempts, seen, prev, lastCall, caught,
          analyst>>

\* ------------------------------------------------------ credential resolver
getOAuthToken(e) == IF e.tokenFile # NoFile THEN e.tokenFile ELSE Null

\* keyContent.replace(/\\n/g, "\n"): every backslash followed by n becomes
\* one newline character.
RECURSIVE ReplaceEscapedNewlines(_)
ReplaceEscapedNewlines(s) ==
  IF s = <<>> THEN <<>>
  ELSE IF Len(s) >= 2 /\ s[1] = "\\" /\ s[2] = "n"
       THEN <<"\n">> \o ReplaceEscapedNewlines(SubSeq(s, 3, Len(s)))
       ELSE <<s[1]>> \o ReplaceEscapedNewlines(SubSeq(s, 2, Len(s)))

\* As getPrivateKey, were the file at the key path preferred to the inline
\* material.
getPrivateKey_PathFirst(e) ==
  IF e.keyPath # "" /\ e.keyFile # <<>> THEN e.keyFile
  ELSE IF e.privateKey # <<>> THEN <<ReplaceEscapedNewlines(e.privateKey)>>
  ELSE NullKey

getPrivateKey(e) ==
  IF e.privateKey # <<>> THEN <<ReplaceEscapedNewlines(e.privateKey)>>
  ELSE IF e.keyPath # "" /\ e.keyFile # <<>> THEN e.keyFile
  ELSE NullKey

\* As detectAuthMethod, were the key pair looked at before the token file.
detectAuthMethod_KeyFirst(e) ==
  IF KeyTruthy(getPrivateKey(e)) /\ Truthy(e.user) THEN "keypair"
  ELSE IF Truthy(getOAuthToken(e)) THEN "oauth"
  ELSE IF Truthy(e.pat) THEN "pat"
  ELSE IF Truthy(e.password) THEN "password"
  ELSE "browser"

\* As detectAuthMethod, were a key enough without SNOWFLAKE_USER.
detectAuthMethod_NoUser(e) ==
  IF Truthy(getOAuthToken(e)) THEN "oauth"
  ELSE IF KeyTruthy(getPrivateKey(e)) THEN "keypair"
  ELSE IF Truthy(e.pat) THEN "pat"
  ELSE IF Truthy(e.password) THEN "password"
  ELSE "browser"

\* As detectAuthMethod, were the password looked at before the PAT.
detectAuthMethod_PasswordFirst(e) ==
  IF Truthy(getOAuthToken(e)) THEN "oauth"
  ELSE IF KeyTruthy(getPrivateKey(e)) /\ Truthy(e.user) THEN "keypair"
  ELSE IF Truthy(e.password) THEN "password"
  ELSE IF Truthy(e.pat) THEN "pat"
  ELSE "browser"

detectAuthMethod(e) ==
  IF Truthy(getOAuthToken(e)) THEN "oauth"
  ELSE IF KeyTruthy(getPrivateKey(e)) /\ Truthy(e.user) THEN "keypair"
  ELSE IF Truthy(e.pat) THEN "pat"
  ELSE IF Truthy(e.password) THEN "password"
  ELSE "browser"

\* The credential fields of the connection options (the account, warehouse,
\* database and schema defaults do not depend on the method).
NoOptions == [token |-> Null, username |-> Null, privateKey |-> NullKey,
              password |-> Null, authenticator |-> Null, warned |-> FALSE]

\* As getConfig, were the PAT handed over as a password.
getConfig_PatAsPassword(e) ==
  LET m == detectAuthMethod(e)
      username == IF Truthy(e.user) THEN e.user ELSE "your-username"
  IN  CASE m = "oauth" ->
             [NoOptions EXCEPT !.token = getOAuthToken(e), !.authenticator = "oauth"]
        [] m = "keypair" ->
             [NoOptions EXCEPT !.username = e.user, !.privateKey = getPrivateKey(e),
                               !.authenticator = "SNOWFLAKE_JWT"]
        [] m = "pat" ->
             [NoOptions EXCEPT !.username = username, !.password = e.pat]
        [] m = "password" ->
             [NoOptions EXCEPT !.username = username, !.password = e.password]
        [] OTHER ->
             [NoOptions EXCEPT !.username = username, !.authenticator = "EXTERNALBROWSER",
                               !.warned = TRUE]

\* As getConfig, without the warning of line 111.
getConfig_Silent(e) ==
  LET m == detectAuthMethod(e)
      username == IF Truthy(e.user) THEN e.user ELSE "your-username"
  IN  CASE m = "oauth" ->
             [NoOptions EXCEPT !.token = getOAuthToken(e), !.authenticator = "oauth"]
        [] m = "keypair" ->
             [NoOptions EXCEPT !.username = e.user, !.privateKey = getPrivateKey(e),
                               !.authenticator = "SNOWFLAKE_JWT"]
        [] m = "pat" ->
             [NoOptions EXCEPT !.username = username, !.token = e.pat,
                               !.authenticator = "PROGRAMMATIC_ACCESS_TOKEN"]
        [] m = "password" ->
             [NoOptions EXCEPT !.username = username, !.password = e.password]
        [] OTHER ->
             [NoOptions EXCEPT !.username = username, !.authenticator = "EXTERNALBROWSER"]

getConfig(e) ==
  LET m == detectAuthMethod(e)
      username == IF Truthy(e.user) THEN e.user ELSE "your-username"
  IN  CASE m = "oauth" ->
             [NoOptions EXCEPT !.token = getOAuthToken(e), !.authenticator = "oauth"]
        [] m = "keypair" ->
             [NoOptions EXCEPT !.username = e.user, !.privateKey = getPrivateKey(e),
                               !.authenticator = "SNOWFLAKE_JWT"]
        [] m = "pat" ->
             [NoOptions EXCEPT !.username = username, !.token = e.pat,
                               !.authenticator = "PROGRAMMATIC_ACCESS_TOKEN"]
        [] m = "password" ->
             [NoOptions EXCEPT !.username = username, !.password = e.password]
        [] OTHER ->
             [NoOptions EXCEPT !.username = username, !.authenticator = "EXTERNALBROWSER",
                               !.warned = TRUE]

\* -------------------------------------------------------------- analyst route
\* (src/app/api/air-quality/route.ts, lines 104-412)
AgentName == "DEMO.DEMO.NYC_OPS_CENTER_AGENT"

\* Questions a request may carry, as sequences of characters; <<>> is a body
\* without a question.
Questions == {<<>>, <<"h", "i">>, <<"i", "t", "'", "s">>}

\* question.replace(/'/g, "''") (line 320).
RECURSIVE EscapeQuotes(_)
EscapeQuotes(q) ==
  IF q = <<>> THEN <<>>
  ELSE (IF q[1] = "'" THEN <<"'", "'">> ELSE <<q[1]>>) \o EscapeQuotes(SubSeq(q, 2, Len(q)))

\* The statement fallbackToDirectQuery hands to query (lines 322-327).
CompletionSql(q) ==
  <<[fn |-> "SNOWFLAKE.CORTEX.COMPLETE", model |-> "mistral-large2",
     question |-> EscapeQuotes(q)]>>
NoSql == <<>>

\* The route's own getPrivateKey (lines 152-170).
analystGetPrivateKey(e) ==
  IF e.privateKey # <<>> THEN <<ReplaceEscapedNewlines(e.privateKey)>>
  ELSE IF e.keyPath # "" /\ e.keyFile # <<>> THEN e.keyFile
  ELSE NullKey

\* --- strings, as sequences of characters
Lower == <<"a", "b", "c", "e", "g", "i", "l", "o", "s", "u", "w", "x", "y">>
Upper == <<"A", "B", "C", "E", "G", "I", "L", "O", "S", "U", "W", "X", "Y">>
\* String.prototype.toUpperCase.
toUpperCase(str) ==
  [i \in 1..Len(str) |->
     IF \E k \in 1..Len(Lower) : Lower[k] = str[i]
     THEN Upper[CHOOSE k \in 1..Len(Lower) : Lower[k] = str[i]]
     ELSE str[i]]
\* Where pat first occurs in str (0: nowhere).
IndexOf(str, pat) ==
  LET hits == {i \in 1..(Len(str) + 1) :
                 i + Len(pat) - 1 <= Len(str) /\ SubSeq(str, i, i + Len(pat) - 1) = pat}
  IN  IF hits = {} THEN 0 ELSE CHOOSE i \in hits : \A k \in hits : i <= k
\* String.prototype.replace with a string pattern: the first occurrence only.
ReplaceFirst(str, pat, by) ==
  LET i == IndexOf(str, pat)
  IN  IF i = 0 THEN str
      ELSE SubSeq(str, 1, i - 1) \o by \o SubSeq(str, i + Len(pat), Len(str))
\* str.split(sep)[0].
FirstSegment(str, sep) ==
  LET i == IndexOf(str, sep)
  IN  IF i = 0 THEN str ELSE SubSeq(str, 1, i - 1)
DotGlobal == <<".", "G", "L", "O", "B", "A", "L">>
\* The characters of the user names the environments hold.
Chars(name) ==
  CASE name = "bob" -> <<"b", "o", "b">>
    [] name = "Alice" -> <<"A", "l", "i", "c", "e">>
    [] OTHER -> <<>>

\* qualifiedUsername (lines 173-183) for the account and the user set.
qualifiedUsername(account, user) ==
  FirstSegment(ReplaceFirst(toUpperCase(account), DotGlobal, <<>>), <<".">>)
    \o <<".">> \o toUpperCase(Chars(user))

\* The base64 SHA-256 digest of the public key of a private key (lines
\* 185-190): one value per key.
Fingerprint(key) == <<"#">> \o key

\* encode (lines 201-202): base64url of the JSON text of obj.
Encode(obj) == <<"base64url", obj>>
Decode(b64) == b64[2]
\* RSA-SHA256 over header.payload with the key (lines 206-209).
RsaSign(headerB64, payloadB64, key) == <<"RS256", headerB64, payloadB64, key>>

\* No token: generateJWT threw.
NoJwt == [ok |-> FALSE, header |-> <<>>, payload |-> <<>>, signature |-> <<>>]

\* As generateJWT, were the check of line 177 missing.
generateJWT_Unchecked(e, now) ==
  LET key == analystGetPrivateKey(e)
      qualified == qualifiedUsername(e.account, e.user)
      header == Encode([alg |-> "RS256", typ |-> "JWT"])
      payload == Encode([iss |-> qualified \o <<".", "S", "H", "A", "2", "5", "6", ":">>
                                   \o Fingerprint(IF key = NullKey THEN <<>> ELSE key[1]),
                         sub |-> qualified, iat |-> now, exp |-> now + JwtLifetime])
  IN  [ok |-> TRUE, header |-> header, payload |-> payload,
       signature |-> RsaSign(header, payload, key)]

\* As generateJWT, with a lifetime counted from zero.
generateJWT_NoIat(e, now) ==
  LET key == analystGetPrivateKey(e)
      qualified == qualifiedUsername(e.account, e.user)
      header == Encode([alg |-> "RS256", typ |-> "JWT"])
      payload == Encode([iss |-> qualified \o <<".", "S", "H", "A", "2", "5", "6", ":">>
                                   \o Fingerprint(IF key = NullKey THEN <<>> ELSE key[1]),
                         sub |-> qualified, iat |-> now, exp |-> JwtLifetime])
  IN  IF ~KeyTruthy(key) THEN NoJwt
      ELSE [ok |-> TRUE, header |-> header, payload |-> payload,
            signature |-> RsaSign(header, payload, key)]

\* generateJWT (lines 172-212) at the time now (seconds); ok is FALSE when it
\* throws "Private key not available for JWT generation".
generateJWT(e, now) ==
  LET key == analystGetPrivateKey(e)
      qualified == qualifiedUsername(e.account, e.user)
      header == Encode([alg |-> "RS256", typ |-> "JWT"])
      payload == Encode([iss |-> qualified \o <<".", "S", "H", "A", "2", "5", "6", ":">>
                                   \o Fingerprint(IF key = NullKey THEN <<>> ELSE key[1]),
                         sub |-> qualified, iat |-> now, exp |-> now + JwtLifetime])
  IN  IF ~KeyTruthy(key) THEN NoJwt
      ELSE [ok |-> TRUE, header |-> header, payload |-> payload,
            signature |-> RsaSign(header, payload, key)]

NoBearer == [ok |-> FALSE, text |-> Null, jwt |-> NoJwt, tokenType |-> Null]

\* As getAuthToken, were the key pair preferred to the PAT.
getAuthToken_KeyFirst(e, now) ==
  IF KeyTruthy(analystGetPrivateKey(e)) /\ Truthy(e.user)
  THEN [ok |-> TRUE, text |-> Null, jwt |-> generateJWT(e, now), tokenType |-> "KEYPAIR_JWT"]
  ELSE IF Truthy(e.pat)
  THEN [ok |-> TRUE, text |-> e.pat, jwt |-> NoJwt, tokenType |-> "PROGRAMMATIC_ACCESS_TOKEN"]
  ELSE NoBearer

\* getAuthToken (lines 214-224): the bearer token (text for a PAT, jwt for a
\* signed token) and its type; ok is FALSE when it throws.
getAuthToken(e, now) ==
  IF Truthy(e.pat)
  THEN [ok |-> TRUE, text |-> e.pat, jwt |-> NoJwt, tokenType |-> "PROGRAMMATIC_ACCESS_TOKEN"]
  ELSE IF KeyTruthy(analystGetPrivateKey(e)) /\ Truthy(e.user)
  THEN [ok |-> TRUE, text |-> Null, jwt |-> generateJWT(e, now), tokenType |-> "KEYPAIR_JWT"]
  ELSE NoBearer

\* Errors callCortexAgent can throw: message, and whether the error object is
\* a DOMException.
NoAgentErr == [message |-> <<>>, dom |-> FALSE]
NoKeyErr == [message |-> <<"Private", "key", "not", "available", "for", "JWT",
                           "generation">>, dom |-> FALSE]
NoAuthErr == [message |-> <<"No", "valid", "authentication", "method", "available",
                            "for", "Cortex", "Agent", "API">>, dom |-> FALSE]
NetworkErr == [message |-> <<"fetch", "failed">>, dom |-> FALSE]
ParseErr == [message |-> <<"Unexpected", "token", "<", "in", "JSON">>, dom |-> FALSE]
\* What fetch rejects with once controller.abort() was called.
AbortErr == [message |-> <<"This", "operation", "was", "aborted">>, dom |-> TRUE]
\* The error thrown for a response that is not ok (lines 267-270).
HttpError(status, body) ==
  [message |-> <<"Cortex", "Agent", "API", "error:", status, "-">> \o body, dom |-> FALSE]
\* Bodies the gateway may send with a status that is not 2xx.
ErrorBodies == {<<"internal", "error">>, <<"statement", "was", "aborted">>}
AgentErrors ==
  {NetworkErr, ParseErr} \cup {HttpError("500", b) : b \in ErrorBodies}

\* What callCortexAgent returns (line 312); results is <<>> for null and
\* <<rows>> otherwise.
AgentResults ==
  {[answer |-> "text", sql |-> Null, results |-> <<>>, toolName |-> Null],
   [answer |-> "text", sql |-> "SELECT", results |-> << <<"r1", "r2">> >>, toolName |-> "analyst"]}

\* No response was sent.
NoResponse == [status |-> 0, answer |-> Null, sql |-> Null, results |-> <<>>,
               rowCount |-> 0, toolName |-> Null, usedAgent |-> FALSE,
               agentName |-> Null, error |-> Null]

\* results?.length || 0 (line 387).
RowCount(results) == IF results = <<>> THEN 0 ELSE Len(results[1])

\* The body of the response after the agent answered (lines 359-392).
AgentResponse(r) ==
  [NoResponse EXCEPT !.status = 200, !.answer = r.answer, !.sql = r.sql,
                     !.results = r.results, !.rowCount = RowCount(r.results),
                     !.toolName = r.toolName, !.usedAgent = TRUE,
                     !.agentName = AgentName]

\* As FallbackResponse, were the answer credited to the agent.
FallbackResponse_Agent(text) ==
  [NoResponse EXCEPT !.status = 200,
                     !.answer = IF Truthy(text) THEN text
                                ELSE "Unable to process your question.",
                     !.usedAgent = TRUE, !.agentName = AgentName]

\* The body of the response after the fallback (lines 329-333, 375-392); text
\* is response[0]?.RESPONSE.
FallbackResponse(text) ==
  [NoResponse EXCEPT !.status = 200,
                     !.answer = IF Truthy(text) THEN text
                                ELSE "Unable to process your question."]

\* The response of the outer catch block (lines 393-411) to an error message.
ErrorResponse(msg) ==
  IF Includes(msg, <<"timeout">>) \/ Includes(msg, <<"aborted">>)
  THEN [NoResponse EXCEPT !.status = 504,
                          !.error = "Request timed out. Please try a simpler question."]
  ELSE [NoResponse EXCEPT !.status = 500, !.error = "Failed to process question"]

\* The test of line 368 on the error callCortexAgent threw.
TreatedAsTimeout(err) == Includes(err.message, <<"aborted">>) \/ err.dom

\* No request was received yet.
NoRequest == [pc |-> "none", question |-> <<>>, now |-> 0, timer |-> "unset",
              delay |-> 0,
              bearer |-> NoBearer, agentOk |-> FALSE, agentErr |-> NoAgentErr,
              sqlText |-> NoSql, queries |-> 0, response |-> NoResponse]

\* ------------------------------------------------------------ session manager
\* As TokenRead, were the PAT compared like the OAuth token.
TokenRead_WithPat(m, e) ==
  IF m = "oauth" THEN getOAuthToken(e) ELSE IF m = "pat" THEN e.pat ELSE Null

\* getConnection's local token (line 121).
TokenRead(m, e) == IF m = "oauth" THEN getOAuthToken(e) ELSE Null

\* As CanReuse, without the "!token ||" that lets token-less methods reuse.
CanReuse_TokenRequired(c, m, t) ==
  c # NullConn /\ m = cachedAuthMethod /\ Truthy(t) /\ t = cachedToken

\* As CanReuse, without the comparison of the token.
CanReuse_IgnoreToken(c, m, t) == c # NullConn /\ m = cachedAuthMethod

\* As CanReuse, without the comparison of the method.
CanReuse_IgnoreMethod(c, m, t) == c # NullConn /\ (~Truthy(t) \/ t = cachedToken)

\* The reuse test of getConnection (line 123), on the cached connection c.
CanReuse(c, m, t) ==
  c # NullConn /\ m = cachedAuthMethod /\ (~Truthy(t) \/ t = cachedToken)

\* connection.destroy (line 129): best effort, also on a connection that is
\* destroyed already.
Destroy(cs, c) == [cs EXCEPT ![c].status = "destroyed"]

\* Garbage collection: a connection object that no variable of the program
\* refers to any more keeps its session status and nothing else.
Collect(cs, refs) ==
  [i \in DOMAIN cs |-> IF i \in refs THEN cs[i] ELSE [cs[i] EXCEPT !.options = NoOptions]]
Refs(c, locals, found) ==
  {c} \cup {locals[q] : q \in Procs} \cup {found[q] : q \in Procs}

isRetryableError(e) ==
  \/ Includes(e.message, ExpiredMarker)
  \/ Includes(e.message, TerminatedMarker)
  \/ e.code = RetryableCode

\* As ShouldRetry, were every error that has a code retried.
ShouldRetry_AnyCode(r, e) == r > 0 /\ e.code # NoCode

\* As ShouldRetry, were every error retried while budget remains.
ShouldRetry_AnyError(r, e) == r > 0

\* The test of the catch block (line 167).
ShouldRetry(r, e) == r > 0 /\ isRetryableError(e)

\* As DropOnRetry, were line 168 missing.
DropOnRetry_Keep(c) == c

\* What the catch block leaves in connection before it recurses (line 168).
DropOnRetry(c) == NullConn

\* As NextRetries, were the budget passed on undiminished.
NextRetries_Same(r) == r

\* The budget handed to the recursive call (line 169).
NextRetries(r) == r - 1

\* No call has finished since the last one started.
NoCall == [ok |-> FALSE, method |-> Null, token |-> Null, resp |-> NoErr, err |-> NoErr]

\* The step just made was not one of the catch block.
NoCatch == [site |-> Null, err |-> NoErr, budgetLeft |-> FALSE]

\* A JavaScript turn can start only when none is under way: a caller at
\* "config" is inside getConnection's synchronous part.
NoConfig == \A q \in Procs : pc[q] # "config"
TurnFree == NoConfig /\ analyst.pc # "signing"
InFlight(q) == pc[q] \in {"config", "connecting", "executing", "failing"}

\* One invocation of query(sql, r) by p, the a-th of the call, up to its first
\* await that waits for the network: getConnection lines 120-130 on the cached
\* connection c0 and, when that connection is reused, conn.execute (line 154).
\* cs is the table of connections when the invocation starts.
Invoke(p, r, a, c0, cs) ==
  LET m == detectAuthMethod(env)
      t == TokenRead(m, env)
  IN  /\ retries' = [retries EXCEPT ![p] = r]
      /\ attempts' = [attempts EXCEPT ![p] = a]
      /\ authMethod' = [authMethod EXCEPT ![p] = m]
      /\ token' = [token EXCEPT ![p] = t]
      /\ connection' = c0
      /\ seen' = [seen EXCEPT ![p] = c0]
      /\ IF CanReuse(c0, m, t)
         THEN /\ conn' = [conn EXCEPT ![p] = c0]
              /\ pc' = [pc EXCEPT ![p] =
                         IF cs[c0].status = "destroyed" THEN "failing" ELSE "executing"]
              /\ conns' = Collect(cs, Refs(c0, conn', seen'))
         ELSE /\ conn' = [conn EXCEPT ![p] = NullConn]
              /\ pc' = [pc EXCEPT ![p] = "config"]
              /\ conns' = Collect(IF c0 # NullConn THEN Destroy(cs, c0) ELSE cs,
                                  Refs(c0, conn', seen'))

\* query(sql, n) entered from outside (line 150).
Call(p, n) ==
  /\ NoConfig
  /\ pc[p] = "idle"
  /\ budget' = [budget EXCEPT ![p] = n]
  /\ Invoke(p, n, 1, connection, conns)
  /\ lastCall' = NoCall
  /\ prev' = [prev EXCEPT ![p] = NullConn]
  /\ caught' = NoCatch
  /\ UNCHANGED <<env, cachedToken, cachedAuthMethod>>

\* query(sql, n) called by a data route handler.
Query(p, n) == Call(p, n) /\ UNCHANGED analyst

\* getConnection lines 132-134: the options are built from a second reading of
\* the environment, the connection object is created and the connect started.
CreateConnection(p) ==
  /\ pc[p] = "config"
  /\ Len(conns) < MaxConns
  /\ conns' = Append(conns, [status |-> "connecting", options |-> getConfig(env)])
  /\ conn' = [conn EXCEPT ![p] = Len(conns) + 1]
  /\ pc' = [pc EXCEPT ![p] = "connecting"]
  /\ caught' = NoCatch
  /\ UNCHANGED analyst
  /\ UNCHANGED <<env, connection, cachedToken, cachedAuthMethod, retries,
                 authMethod, token, budget, attempts, seen, prev, lastCall>>

\* connectAsync resolves: getConnection lines 135-138, then conn.execute.
ConnectOk(p) ==
  /\ TurnFree
  /\ pc[p] = "connecting"
  /\ connection' = conn[p]
  /\ conns' = Collect([conns EXCEPT ![conn[p]].status = "live"],
                      Refs(conn[p], conn, seen))
  /\ cachedToken' = token[p]
  /\ cachedAuthMethod' = authMethod[p]
  /\ pc' = [pc EXCEPT ![p] = "executing"]
  /\ caught' = NoCatch
  /\ UNCHANGED analyst
  /\ UNCHANGED <<env, retries, authMethod, token, conn, budget,
                 attempts, seen, prev, lastCall>>

\* The call of p ends (ok: with rows): its frame is gone, and the history
\* keeps what its last getConnection resolved.
Finished(p, ok, answer, thrown) ==
  /\ pc' = [pc EXCEPT ![p] = "idle"]
  /\ retries' = [retries EXCEPT ![p] = 0]
  /\ authMethod' = [authMethod EXCEPT ![p] = Null]
  /\ token' = [token EXCEPT ![p] = Null]
  /\ conn' = [conn EXCEPT ![p] = NullConn]
  /\ seen' = [seen EXCEPT ![p] = NullConn]
  /\ budget' = [budget EXCEPT ![p] = 0]
  /\ attempts' = [attempts EXCEPT ![p] = 0]
  /\ prev' = [prev EXCEPT ![p] = NullConn]
  /\ lastCall' = [ok |-> ok, method |-> IF ok THEN authMethod[p] ELSE Null,
                  token |-> IF ok THEN token[p] ELSE Null,
                  resp |-> answer, err |-> thrown]

\* What query throws for the error e it caught (line 171).
Thrown(e) == e

\* The catch block of query (lines 165-172) on the error e thrown by the await
\* of site ("connect": line 152, "execute": line 153), cs being the table of
\* connections when the error arrives.
Catch(p, site, e, cs) ==
  /\ caught' = [site |-> site, err |-> e, budgetLeft |-> (retries[p] > 0)]
  /\ IF ShouldRetry(retries[p], e)
     THEN /\ Invoke(p, NextRetries(retries[p]), attempts[p] + 1,
                    DropOnRetry(connection), cs)
          /\ prev' = [prev EXCEPT ![p] = conn[p]]
          /\ UNCHANGED <<budget, lastCall>>
     ELSE /\ Finished(p, FALSE, e, Thrown(e))
          /\ conns' = Collect(cs, Refs(connection, conn', seen'))
          /\ UNCHANGED connection
  /\ UNCHANGED <<env, cachedToken, cachedAuthMethod, analyst>>

\* connectAsync rejects with e: the await of line 134 throws into query's try.
ConnectFail(p, e) ==
  /\ TurnFree
  /\ pc[p] = "connecting"
  /\ Catch(p, "connect", e, [conns EXCEPT ![conn[p]].status = "failed"])

\* The complete callback with rows (line 160): query returns them.
QueryRows(p) ==
  /\ TurnFree
  /\ pc[p] = "executing"
  /\ Finished(p, TRUE, Rows, NoErr)
  /\ caught' = NoCatch
  /\ UNCHANGED analyst
  /\ conns' = Collect(conns, Refs(connection, conn', seen'))
  /\ UNCHANGED <<env, connection, cachedToken, cachedAuthMethod>>

\* The complete callback with an error (line 158).  A statement submitted on a
\* connection that was destroyed before can only end with the driver's
\* terminated-connection error.
QueryErr(p, e) ==
  /\ TurnFree
  /\ pc[p] \in {"executing", "failing"}
  /\ pc[p] = "failing" => e = TerminatedErr
  /\ Catch(p, "execute", e, conns)

\* ---------------------------------------------------------------- environment
\* The hosting platform rewrites or removes the token file, at any moment.
WriteTokenFile(v) ==
  /\ v # env.tokenFile
  /\ env' = [env EXCEPT !.tokenFile = v]
  /\ caught' = NoCatch
  /\ UNCHANGED analyst
  /\ UNCHANGED <<connection, cachedToken, cachedAuthMethod, conns, pc, retries,
                 authMethod, token, conn, budget, attempts, seen, prev, lastCall>>

\* An environment variable changes, between two turns of the process.
SetEnv(f, v) ==
  /\ TurnFree
  /\ v # env[f]
  /\ env' = [env EXCEPT ![f] = v]
  /\ caught' = NoCatch
  /\ UNCHANGED analyst
  /\ UNCHANGED <<connection, cachedToken, cachedAuthMethod, conns, pc, retries,
                 authMethod, token, conn, budget, attempts, seen, prev, lastCall>>

EnvDomain(f) ==
  CASE f = "privateKey" -> KeyValues
    [] f = "user" -> UserValues
    [] f = "pat" -> PatValues
    [] f = "password" -> PasswordValues

EnvVars == {"privateKey", "pat", "password"}

\* --------------------------------------------------------- analyst handler
\* The caller the analyst handler is on the session layer.
AnalystCaller == 1

\* The step leaves the session layer alone.
SessionIdle ==
  /\ caught' = NoCatch
  /\ UNCHANGED <<env, connection, cachedToken, cachedAuthMethod, conns, pc, retries,
                 authMethod, token, conn, budget, attempts, seen, prev, lastCall>>

\* As ClearTimer, were the timer left to run.
ClearTimer_Keep(t) == t

\* clearTimeout(timeoutId) (lines 346, 380, 394).
ClearTimer(t) == IF t = "armed" THEN "cleared" ELSE t

\* The inner catch block (lines 364-378) on the error err thrown by
\* callCortexAgent, req being the handler's state when it is thrown: either
\* the error is rethrown as "Request timeout" and answered by the outer catch
\* block, or fallbackToDirectQuery calls query.
AgentCatch(err, req) ==
  IF TreatedAsTimeout(err)
  THEN /\ analyst' = [req EXCEPT !.pc = "done", !.agentErr = err,
                                 !.timer = ClearTimer(req.timer),
                                 !.response = ErrorResponse(<<"Request", "timeout">>)]
       /\ SessionIdle
  ELSE /\ analyst' = [req EXCEPT !.pc = "querying", !.agentErr = err,
                                 !.sqlText = CompletionSql(req.question),
                                 !.queries = @ + 1]
       /\ Call(AnalystCaller, DefaultRetries)

\* POST (lines 336-357): the timer is set, the question read, and
\* callCortexAgent runs up to its fetch.
Post(q) ==
  /\ analyst.pc \in {"none", "done"}
  /\ analyst.now < MaxPosts
  /\ TurnFree
  /\ pc[AnalystCaller] = "idle"
  /\ LET req == [NoRequest EXCEPT !.question = q, !.now = analyst.now + 1,
                                  !.timer = "armed", !.delay = TimeoutMs]
         auth == getAuthToken(env, req.now)
     IN  IF q = <<>>
         THEN /\ analyst' = [req EXCEPT !.pc = "done", !.timer = "cleared",
                                        !.response = [NoResponse EXCEPT
                                                        !.status = 400,
                                                        !.error = "Question is required"]]
              /\ SessionIdle
         ELSE IF auth.ok /\ auth.tokenType = "KEYPAIR_JWT"
         THEN /\ analyst' = [req EXCEPT !.pc = "signing",
                                        !.bearer = [auth EXCEPT !.jwt = NoJwt]]
              /\ SessionIdle
         ELSE IF auth.ok
         THEN /\ analyst' = [req EXCEPT !.pc = "fetching", !.bearer = auth]
              /\ SessionIdle
         ELSE AgentCatch(NoAuthErr, req)

\* getAuthToken line 220, after its test of line 219 passed: generateJWT reads
\* the key again (line 175) and signs, or throws and the inner catch block
\* takes the error.
GenerateJWT ==
  /\ analyst.pc = "signing"
  /\ LET jwt == generateJWT(env, analyst.now)
     IN  IF jwt.ok
         THEN /\ analyst' = [analyst EXCEPT !.pc = "fetching", !.bearer.jwt = jwt]
              /\ SessionIdle
         ELSE AgentCatch(NoKeyErr, [analyst EXCEPT !.bearer = NoBearer])

\* Another process writes, empties or removes the file at the key path.
WriteKeyFile(v) ==
  /\ v # env.keyFile
  /\ env' = [env EXCEPT !.keyFile = v]
  /\ caught' = NoCatch
  /\ UNCHANGED analyst
  /\ UNCHANGED <<connection, cachedToken, cachedAuthMethod, conns, pc, retries,
                 authMethod, token, conn, budget, attempts, seen, prev, lastCall>>

\* callCortexAgent returns r (lines 359-392).
AgentOk(r) ==
  /\ analyst.pc = "fetching"
  /\ TurnFree
  /\ analyst' = [analyst EXCEPT !.pc = "done", !.agentOk = TRUE,
                                !.timer = ClearTimer(analyst.timer),
                                !.response = AgentResponse(r)]
  /\ SessionIdle

\* callCortexAgent throws e: the fetch failed, the status was not 2xx or the
\* body could not be parsed.
AgentFail(e) ==
  /\ analyst.pc = "fetching"
  /\ TurnFree
  /\ AgentCatch(e, analyst)

\* TimeoutMs after the request came in the timer fires (line 340):
\* controller.abort() makes a pending fetch reject with the abort error; a
\* fallback query under way does not listen to the signal.
Timeout ==
  /\ analyst.timer = "armed"
  /\ TurnFree
  /\ IF analyst.pc = "fetching"
     THEN AgentCatch(AbortErr, [analyst EXCEPT !.timer = "fired"])
     ELSE /\ analyst' = [analyst EXCEPT !.timer = "fired"]
          /\ SessionIdle

\* The fallback's query ended (lines 329-333, 375-411); text is what the
\* first row holds.
FallbackDone(text) ==
  /\ analyst.pc = "querying"
  /\ pc[AnalystCaller] = "idle"
  /\ TurnFree
  /\ analyst' = [analyst EXCEPT !.pc = "done",
                                !.timer = ClearTimer(analyst.timer),
                                !.response = IF lastCall.ok
                                             THEN FallbackResponse(text)
                                             ELSE ErrorResponse(lastCall.err.message)]
  /\ SessionIdle

\* ------------------------------------------------------------ specifications
Start(envs) ==
  /\ env \in envs
  /\ connection = NullConn
  /\ cachedToken = Null
  /\ cachedAuthMethod = Null
  /\ conns = <<>>
  /\ pc = [p \in Procs |-> "idle"]
  /\ retries = [p \in Procs |-> 0]
  /\ authMethod = [p \in Procs |-> Null]
  /\ token = [p \in Procs |-> Null]
  /\ conn = [p \in Procs |-> NullConn]
  /\ budget = [p \in Procs |-> 0]
  /\ attempts = [p \in Procs |-> 0]
  /\ seen = [p \in Procs |-> NullConn]
  /\ prev = [p \in Procs |-> NullConn]
  /\ lastCall = NoCall
  /\ caught = NoCatch
  /\ analyst = NoRequest

\* Concurrent route handlers, each calling query(sql) with the default budget
\* as every route does, in a deployment whose token file comes and goes and
\* that has a PAT to fall back on.
ConcurrentEnvs ==
  [tokenFile : TokenFileValues, privateKey : {<<>>}, user : UserValues,
   pat : {"p1"}, password : {""}, keyPath : {""}, keyFile : {<<>>},
   account : {<<>>}]
ConcurrentErrors == {ExpiredErr, SqlErr}

Init == Start(ConcurrentEnvs)

Next ==
  \/ \E p \in Procs : Query(p, DefaultRetries)
  \/ \E p \in Procs : CreateConnection(p)
  \/ \E p \in Procs : ConnectOk(p)
  \/ \E p \in Procs, e \in ConcurrentErrors : ConnectFail(p, e)
  \/ \E p \in Procs : QueryRows(p)
  \/ \E p \in Procs, e \in Errors : QueryErr(p, e)
  \/ \E v \in TokenFileValues : WriteTokenFile(v)

Spec == Init /\ [][Next]_vars

\* The process used by one caller at a time with any budget, over every
\* environment, the environment changing only between two calls.
Quiet == \A q \in Procs : ~InFlight(q)

AllEnvs ==
  [tokenFile : TokenFileValues, privateKey : KeyValues, user : UserValues,
   pat : PatValues, password : PasswordValues, keyPath : {""}, keyFile : {<<>>},
   account : {<<>>}]

InitSeq == Start(AllEnvs)

SeqQuery(p, n) == Quiet /\ Query(p, n)
SeqWriteTokenFile(v) == Quiet /\ WriteTokenFile(v)
SeqSetEnv(f, v) == Quiet /\ SetEnv(f, v)

NextSeq ==
  \/ \E p \in Procs, n \in 0..MaxRetries : SeqQuery(p, n)
  \/ \E p \in Procs : CreateConnection(p)
  \/ \E p \in Procs : ConnectOk(p)
  \/ \E p \in Procs, e \in Errors : ConnectFail(p, e)
  \/ \E p \in Procs : QueryRows(p)
  \/ \E p \in Procs, e \in Errors : QueryErr(p, e)
  \/ \E v \in TokenFileValues : SeqWriteTokenFile(v)
  \/ \E f \in EnvVars : \E v \in EnvDomain(f) : SeqSetEnv(f, v)

SeqSpec == InitSeq /\ [][NextSeq]_vars

\* One call at a time, started only when the connections it can need (one per
\* attempt) are still within MaxConns, so that no attempt is cut short by the
\* bound; every connect and every execute that was started completes.
LiveQuery(p, n) == Quiet /\ Len(conns) + n + 1 <= MaxConns /\ Query(p, n)

NextLive ==
  \/ \E p \in Procs, n \in 0..MaxRetries : LiveQuery(p, n)
  \/ \E p \in Procs : CreateConnection(p)
  \/ \E p \in Procs : ConnectOk(p)
  \/ \E p \in Procs, e \in ConcurrentErrors : ConnectFail(p, e)
  \/ \E p \in Procs : QueryRows(p)
  \/ \E p \in Procs, e \in Errors : QueryErr(p, e)
  \/ \E v \in TokenFileValues : WriteTokenFile(v)

Completes(p) ==
  /\ WF_vars(CreateConnection(p))
  /\ WF_vars(ConnectOk(p) \/ \E e \in ConcurrentErrors : ConnectFail(p, e))
  /\ WF_vars(QueryRows(p) \/ \E e \in Errors : QueryErr(p, e))

LiveSpec == Init /\ [][NextLive]_vars /\ \A p \in Procs : Completes(p)

\* Cold starts over every shape of environment: the token file absent, empty
\* or filled, the key inline, in a file (empty or not) or nowhere, the user,
\* the PAT and the password set or not; calls one after another, all served.
ResolveEnvs ==
  [tokenFile : {NoFile, "", "tok1"},
   privateKey : KeyValues \cup {<<"\\", "\\", "n", "n">>}, user : {"", "bob"},
   pat : {"", "abc123"}, password : PasswordValues, keyPath : KeyPathValues,
   keyFile : KeyFileValues \cup {<<<<>>>>},
   account : {<<>>}]

InitResolve == Start(ResolveEnvs)

NextResolve ==
  \/ \E p \in Procs : SeqQuery(p, DefaultRetries)
  \/ \E p \in Procs : CreateConnection(p)
  \/ \E p \in Procs : ConnectOk(p)
  \/ \E p \in Procs : QueryRows(p)

ResolveSpec == InitResolve /\ [][NextResolve]_vars

\* The analyst route alone: requests one after another, the agent answering,
\* failing or timing out, the fallback going through query.
AnalystEnvs ==
  [tokenFile : {NoFile, "tok1"}, privateKey : KeyValues, user : {"", "bob"},
   pat : {"", "p1"}, password : {"pw"}, keyPath : {""}, keyFile : {<<>>},
   account : {<<>>}]
RowTexts == {"", "text"}

InitAnalyst == Start(AnalystEnvs)

NextAnalyst ==
  \/ \E q \in Questions : Post(q)
  \/ GenerateJWT
  \/ \E r \in AgentResults : AgentOk(r)
  \/ \E e \in AgentErrors : AgentFail(e)
  \/ Timeout
  \/ \E t \in RowTexts : FallbackDone(t)
  \/ \E p \in Procs : CreateConnection(p)
  \/ \E p \in Procs : ConnectOk(p)
  \/ \E p \in Procs, e \in ConcurrentErrors : ConnectFail(p, e)
  \/ \E p \in Procs : QueryRows(p)
  \/ \E p \in Procs, e \in Errors : QueryErr(p, e)

AnalystSpec == InitAnalyst /\ [][NextAnalyst]_vars

\* Deployments of the analyst route that sign their own token: no PAT, the
\* key inline or in a file another process may write, and account names of
\* the forms the locator takes.
Accounts ==
  {<<>>,
   <<"x", "y">>,
   <<"X", "Y", ".", "U", "S", ".", "a", "w", "s">>,
   <<"x", "y", ".", "g", "l", "o", "b", "a", "l">>,
   <<"x", "y", ".", "g", "l", "o", "b", "a", "l", "x">>}
JwtEnvs ==
  [tokenFile : {NoFile}, privateKey : KeyValues, user : {"", "bob", "Alice"},
   pat : {""}, password : {"pw"}, keyPath : KeyPathValues,
   keyFile : KeyFileValues \cup {<<<<>>>>}, account : Accounts]

InitJwt == Start(JwtEnvs)

NextJwt ==
  \/ \E q \in Questions \ {<<>>} : Post(q)
  \/ GenerateJWT
  \/ \E v \in KeyFileValues \cup {<<<<>>>>} : WriteKeyFile(v)
  \/ \E r \in AgentResults : AgentOk(r)
  \/ \E e \in {NetworkErr} : AgentFail(e)
  \/ \E t \in RowTexts : FallbackDone(t)
  \/ \E p \in Procs : CreateConnection(p)
  \/ \E p \in Procs : ConnectOk(p)
  \/ \E p \in Procs : QueryRows(p)

JwtSpec == InitJwt /\ [][NextJwt]_vars

\* A deployment with no credential at all, where every call resolves browser:
\* calls one after another, every connect and execute completing.
BrowserEnvs ==
  [tokenFile : {NoFile}, privateKey : {<<>>}, user : {"", "bob"}, pat : {""},
   password : {""}, keyPath : KeyPathValues, keyFile : {<<>>},
   account : {<<>>}]

InitBrowser == Start(BrowserEnvs)

NextBrowser ==
  \/ \E p \in Procs, n \in 0..MaxRetries : LiveQuery(p, n)
  \/ \E p \in Procs : CreateConnection(p)
  \/ \E p \in Procs : ConnectOk(p)
  \/ \E p \in Procs, e \in Errors : ConnectFail(p, e)
  \/ \E p \in Procs : QueryRows(p)
  \/ \E p \in Procs, e \in Errors : QueryErr(p, e)

BrowserSpec == InitBrowser /\ [][NextBrowser]_vars /\ \A p \in Procs : Completes(p)

TypeOK ==
  /\ connection \in 0..Len(conns)
  /\ pc \in [Procs -> {"idle", "config", "connecting", "executing", "failing"}]

\* ------------------------------------------------------------------ claims
\* The method a set of connection options was built under.
MethodOf(o) ==
  CASE o.authenticator = "oauth" -> "oauth"
    [] o.authenticator = "SNOWFLAKE_JWT" -> "keypair"
    [] o.authenticator = "PROGRAMMATIC_ACCESS_TOKEN" -> "pat"
    [] o.authenticator = "EXTERNALBROWSER" -> "browser"
    [] OTHER -> "password"

Live == {i \in DOMAIN conns : conns[i].status = "live"}
Connecting == {i \in DOMAIN conns : conns[i].status = "connecting"}
Raised == ~lastCall.ok /\ lastCall # NoCall
\* The step in which the call of p ends.
Ends(p) == InFlight(p) /\ pc'[p] = "idle"

\* C1: query(sql, n) makes at most n + 1 attempts, each retry with a budget one
\* smaller (so the call ends); a call that ends by raising a retryable failure
\* has used its whole budget, two attempts under the default budget, and
\* raises the failure of its last attempt; when every connect and execute
\* completes, every call ends.
C1_RetryBound ==
  /\ [](\A p \in Procs : InFlight(p) => attempts[p] + retries[p] = budget[p] + 1)
  /\ [][\A p \in Procs :
          (Ends(p) /\ Raised' /\ isRetryableError(lastCall'.resp)) =>
            /\ attempts[p] = budget[p] + 1
            /\ budget[p] = DefaultRetries => attempts[p] = 2
            /\ lastCall'.err = lastCall'.resp]_vars
  /\ \A p \in Procs : InFlight(p) ~> (pc[p] = "idle")

C1_Witness ==
  \E p \in Procs :
    /\ pc[p] = "executing"
    /\ budget[p] = DefaultRetries
    /\ attempts[p] = 2
    /\ retries[p] = 0

\* C2: a call that starts after a call that returned rows, and resolves the
\* method and token that call resolved, submits its statement on the cached
\* connection: nothing is connected and nothing destroyed.
C2_SessionReuse ==
  [][\A p \in Procs :
       ( /\ pc[p] = "idle" /\ pc'[p] # "idle"
         /\ lastCall.ok
         /\ detectAuthMethod(env) = lastCall.method
         /\ TokenRead(detectAuthMethod(env), env) = lastCall.token )
       => /\ connection # NullConn
          /\ connection' = connection
          /\ pc'[p] = "executing"
          /\ conn'[p] = connection
          /\ Len(conns') = Len(conns)
          /\ \A i \in DOMAIN conns : conns'[i].status = conns[i].status]_vars

C2_Witness ==
  \E p \in Procs :
    /\ pc[p] = "executing"
    /\ attempts[p] = 1
    /\ seen[p] # NullConn
    /\ conn[p] = seen[p]
    /\ conns[conn[p]].status = "live"
    /\ Len(conns) = 1

\* C3: when a call finds a cached session built under oauth with another
\* token than the token file now holds, the old connection is destroyed, and
\* the statement is submitted on a new connection opened with the new token.
Rotated(p) ==
  /\ seen[p] # NullConn
  /\ authMethod[p] = "oauth"
  /\ conns[seen[p]].options.authenticator = "oauth"
  /\ conns[seen[p]].options.token # token[p]

C3_TokenRotation ==
  \A p \in Procs :
    (InFlight(p) /\ Rotated(p)) =>
      /\ conns[seen[p]].status = "destroyed"
      /\ conn[p] # seen[p]
      /\ pc[p] # "failing"
      /\ conn[p] # NullConn =>
           /\ conns[conn[p]].options.token = token[p]
           /\ conns[conn[p]].options.authenticator = "oauth"
      /\ pc[p] = "executing" => conns[conn[p]].status = "live"

C3_Witness ==
  \E p \in Procs :
    /\ pc[p] = "executing"
    /\ Rotated(p)
    /\ conns[seen[p]].options.token = "tok1"
    /\ conns[conn[p]].options.token = "tok2"

\* C4, as claimed: under oauth and under pat alike, a call that finds a cached
\* session opened with another token value than the one now available does
\* not reuse that session.
C4_AnyTokenInvalidates ==
  \A p \in Procs :
    ( /\ InFlight(p) /\ seen[p] # NullConn
      /\ authMethod[p] \in {"oauth", "pat"}
      /\ MethodOf(conns[seen[p]].options) = authMethod[p]
      /\ conns[seen[p]].options.token # getConfig(env).token )
    => conn[p] # seen[p]

\* C4, amended: the token value invalidates the session under oauth only; under
\* pat the session is reused whatever SNOWFLAKE_PAT holds now.
C4_OAuthTokenOnly ==
  \A p \in Procs :
    ( /\ InFlight(p) /\ seen[p] # NullConn
      /\ MethodOf(conns[seen[p]].options) = authMethod[p] )
    => /\ ( /\ authMethod[p] = "oauth"
            /\ conns[seen[p]].options.token # getConfig(env).token )
          => (conn[p] # seen[p] /\ conns[seen[p]].status = "destroyed")
       /\ authMethod[p] = "pat" => conn[p] = seen[p]

C4_Witness ==
  \E p \in Procs :
    /\ pc[p] = "executing"
    /\ authMethod[p] = "pat"
    /\ conn[p] = seen[p]
    /\ conns[seen[p]].options.token = "p1"
    /\ env.pat = "p2"

\* C5: when a call resolves another method than the one the cached session
\* was built under, the cached connection is destroyed and the statement is
\* submitted on a new connection opened under the resolved method.
MethodChanged(p) ==
  /\ seen[p] # NullConn
  /\ MethodOf(conns[seen[p]].options) # authMethod[p]

C5_MethodChange ==
  \A p \in Procs :
    (InFlight(p) /\ MethodChanged(p)) =>
      /\ conns[seen[p]].status = "destroyed"
      /\ conn[p] # seen[p]
      /\ pc[p] # "failing"
      /\ conn[p] # NullConn => MethodOf(conns[conn[p]].options) = authMethod[p]
      /\ pc[p] = "executing" => conns[conn[p]].status = "live"

C5_Witness ==
  \E p \in Procs :
    /\ pc[p] = "executing"
    /\ MethodChanged(p)
    /\ MethodOf(conns[seen[p]].options) = "keypair"
    /\ authMethod[p] = "browser"

\* C6: at most one connection is live (connected and not destroyed).
C6_SingleLiveSession == Cardinality(Live) <= 1

\* C7: at most one connect is under way at any time.
C7_OneConnectInFlight == Cardinality(Connecting) <= 1

\* C8: no connection is destroyed while a statement submitted on it awaits
\* its completion callback.
C8_NoDestroyWhileOutstanding ==
  \A p \in Procs : pc[p] = "executing" => conns[conn[p]].status # "destroyed"

\* C9: a retry finds no cached session, connects anew and submits its
\* statement on that new connection, never on the one the failure came from,
\* with a budget one smaller; and a retryable failure is raised only once the
\* budget is used up.
C9_RetryOnNewConnection ==
  /\ [](\A p \in Procs :
         (InFlight(p) /\ attempts[p] >= 2) =>
           /\ seen[p] = NullConn
           /\ pc[p] # "failing"
           /\ prev[p] # NullConn
           /\ conn[p] # prev[p]
           /\ attempts[p] + retries[p] = budget[p] + 1)
  /\ [][\A p \in Procs :
          (Ends(p) /\ Raised' /\ isRetryableError(lastCall'.resp)) => retries[p] = 0]_vars

C9_Witness ==
  \E p \in Procs :
    /\ pc[p] = "executing"
    /\ attempts[p] = 2
    /\ retries[p] = DefaultRetries - 1
    /\ prev[p] # NullConn
    /\ conn[p] # prev[p]
    /\ conns[conn[p]].status = "live"

\* C10: when a call raises a retryable failure of its statement, the
\* connection the statement ran on is destroyed and no session is left cached.
C10_FailureInvalidates ==
  [][\A p \in Procs :
       ( /\ pc[p] \in {"executing", "failing"} /\ pc'[p] = "idle"
         /\ ~lastCall'.ok
         /\ isRetryableError(lastCall'.resp) )
       => /\ connection' = NullConn
          /\ conns'[conn[p]].status = "destroyed"]_vars

\* C11: when a statement fails with an error that is not retryable, the call
\* ends in that step, whether or not it has budget left, and raises that
\* error unchanged (calls come one at a time: no call is left under way).
C11_NonRetryablePropagates ==
  (caught.site = "execute" /\ ~isRetryableError(caught.err)) =>
    /\ Quiet
    /\ ~lastCall.ok
    /\ lastCall.err = caught.err

C11_Witness ==
  /\ caught.site = "execute"
  /\ caught.err = SqlErr
  /\ caught.budgetLeft
  /\ lastCall.err = SqlErr

\* C12: when the connect of a call fails, with whatever error, the call ends
\* in that step, without another connection attempt, and raises that error.
C12_ConnectFailureFatal ==
  caught.site = "connect" =>
    /\ Quiet
    /\ ~lastCall.ok
    /\ lastCall.err = caught.err

\* What the environment offers, read off its variables and files.
TokenFilePresent == env.tokenFile # NoFile /\ env.tokenFile # ""
InlineKey == env.privateKey # <<>>
FileKey == env.keyPath # "" /\ env.keyFile # <<>> /\ env.keyFile[1] # <<>>
KeyResolvable == InlineKey \/ FileKey
UserSet == env.user # ""
PatSet == env.pat # ""
PasswordSet == env.password # ""
\* What the callers under way resolved.
Resolved == {authMethod[p] : p \in {q \in Procs : InFlight(q)}}

\* C13: with a non-empty token file, detectAuthMethod gives oauth, whatever
\* else is set, and that is what every call resolves.
C13_OAuthPriority ==
  TokenFilePresent =>
    /\ detectAuthMethod(env) = "oauth"
    /\ Resolved \subseteq {"oauth"}

C13_Witness ==
  \E p \in Procs :
    /\ pc[p] = "executing"
    /\ authMethod[p] = "oauth"
    /\ InlineKey /\ FileKey /\ UserSet /\ PatSet /\ PasswordSet

\* C14: without a usable token file, detectAuthMethod gives keypair exactly
\* when a key is resolvable and SNOWFLAKE_USER is set, whatever the PAT and
\* the password are.
C14_KeyPairPriority ==
  ~TokenFilePresent =>
    /\ detectAuthMethod(env) = "keypair" <=> (KeyResolvable /\ UserSet)
    /\ \A m \in Resolved : m = "keypair" <=> (KeyResolvable /\ UserSet)

C14_Witness ==
  \E p \in Procs :
    /\ pc[p] = "executing"
    /\ ~TokenFilePresent
    /\ KeyResolvable /\ ~UserSet /\ ~PatSet /\ PasswordSet
    /\ authMethod[p] = "password"

\* C15: when neither oauth nor keypair applies, detectAuthMethod gives pat if
\* a PAT is set, else password if a password is set, else browser; browser is
\* given exactly when nothing else applies, and the result is always one of
\* the five methods.
C15_FirstMatchWins ==
  /\ detectAuthMethod(env) \in AuthMethod
  /\ Resolved \subseteq {detectAuthMethod(env)}
  /\ (~TokenFilePresent /\ ~(KeyResolvable /\ UserSet)) =>
       detectAuthMethod(env) = IF PatSet THEN "pat"
                               ELSE IF PasswordSet THEN "password"
                               ELSE "browser"
  /\ detectAuthMethod(env) = "browser" <=>
       ~(TokenFilePresent \/ (KeyResolvable /\ UserSet) \/ PatSet \/ PasswordSet)

C15_Witness ==
  \E p \in Procs :
    /\ pc[p] = "executing"
    /\ env.tokenFile = ""
    /\ PatSet /\ PasswordSet /\ ~KeyResolvable
    /\ authMethod[p] = "pat"

\* The connections opened by the callers under way.
Opened == {conn[p] : p \in {q \in Procs : pc[q] \in {"connecting", "executing"}}}
\* The credential fields a set of options carries.
Carries(o) ==
  {f \in {"token", "username", "password", "authenticator"} : o[f] # Null}
    \cup (IF o.privateKey # NullKey THEN {"privateKey"} ELSE {})

\* C20: the options a session is opened with have the shape of the method
\* resolved from the environment: token and authenticator oauth under oauth;
\* username, privateKey and SNOWFLAKE_JWT under keypair; username, the PAT as
\* token and PROGRAMMATIC_ACCESS_TOKEN under pat; username and password under
\* password; username and EXTERNALBROWSER under browser.
C20_CredentialShape ==
  \A i \in Opened :
    LET o == conns[i].options
        m == detectAuthMethod(env)
    IN  /\ m = "oauth" =>
             /\ Carries(o) = {"token", "authenticator"}
             /\ o.token = env.tokenFile /\ o.authenticator = "oauth"
        /\ m = "keypair" =>
             /\ Carries(o) = {"username", "privateKey", "authenticator"}
             /\ o.username = env.user /\ o.authenticator = "SNOWFLAKE_JWT"
             /\ InlineKey => o.privateKey = <<ReplaceEscapedNewlines(env.privateKey)>>
             /\ ~InlineKey => o.privateKey = env.keyFile
        /\ m = "pat" =>
             /\ Carries(o) = {"username", "token", "authenticator"}
             /\ o.token = env.pat /\ o.authenticator = "PROGRAMMATIC_ACCESS_TOKEN"
             /\ UserSet => o.username = env.user
        /\ m = "password" =>
             /\ Carries(o) = {"username", "password"}
             /\ o.password = env.password
             /\ UserSet => o.username = env.user
        /\ m = "browser" =>
             /\ Carries(o) = {"username", "authenticator"}
             /\ o.authenticator = "EXTERNALBROWSER"
             /\ UserSet => o.username = env.user

C20_Witness ==
  \E p \in Procs :
    /\ pc[p] = "executing"
    /\ env.pat = "abc123" /\ env.user = "bob"
    /\ ~KeyResolvable /\ env.tokenFile = NoFile
    /\ authMethod[p] = "pat"
    /\ conns[conn[p]].options.token = "abc123"
    /\ conns[conn[p]].options.username = "bob"
    /\ conns[conn[p]].options.authenticator = "PROGRAMMATIC_ACCESS_TOKEN"

\* The handler took the fallback path for the question it holds.
FellBack ==
  /\ analyst.pc \in {"querying", "done"}
  /\ analyst.sqlText = CompletionSql(analyst.question)
  /\ analyst.queries = 1

\* C16: when the timer fires during the agent call, the handler falls back
\* to a completion query and does not answer with the timeout as an error.
C16_TimeoutFallsBack ==
  (analyst.timer = "fired" /\ analyst.delay = TimeoutMs /\ analyst.agentErr = AbortErr) =>
    /\ FellBack
    /\ analyst.response.status # 504

\* C17: when the agent call fails for another reason than the timer (no
\* bearer token, network error, status that is not 2xx, unparsable body), the
\* handler issues one completion query with the question, its single quotes
\* doubled, and does not answer with the agent's error.
C17_AgentFailureFallsBack ==
  (analyst.agentErr # NoAgentErr /\ analyst.agentErr # AbortErr) =>
    /\ FellBack
    /\ (analyst.pc = "done" /\ lastCall.ok) => analyst.response.status = 200

\* C18: a response made on the fallback path has sql null, results null,
\* rowCount 0, usedAgent false and agentName null; usedAgent is true, and
\* agentName set, exactly when the agent call succeeded.
C18_FallbackFreeText ==
  LET r == analyst.response
  IN  /\ r.usedAgent <=> (analyst.agentOk /\ r.status = 200)
      /\ r.usedAgent <=> r.agentName # Null
      /\ analyst.sqlText # NoSql =>
           /\ r.sql = Null /\ r.results = <<>> /\ r.rowCount = 0
           /\ ~r.usedAgent /\ r.agentName = Null
      /\ (analyst.pc = "done" /\ analyst.agentOk) => r.status = 200

C18_Witness ==
  /\ analyst.pc = "done"
  /\ analyst.sqlText = CompletionSql(<<"i", "t", "'", "s">>)
  /\ analyst.response.status = 200
  /\ analyst.response.answer = "text"
  /\ ~analyst.response.usedAgent

\* C19: getAuthToken gives the PAT, typed PROGRAMMATIC_ACCESS_TOKEN, whenever
\* SNOWFLAKE_PAT is set; else, with a key and a user, a JWT signed at the time
\* of the call, typed KEYPAIR_JWT; else it throws.  The step that obtains the
\* token leaves connection, cachedToken and cachedAuthMethod as they were.
C19_BearerChoice ==
  /\ [](analyst.pc = "fetching" =>
          /\ PatSet =>
               /\ analyst.bearer.tokenType = "PROGRAMMATIC_ACCESS_TOKEN"
               /\ analyst.bearer.text = env.pat
               /\ analyst.bearer.jwt = NoJwt
          /\ ~PatSet =>
               /\ InlineKey /\ UserSet
               /\ analyst.bearer.tokenType = "KEYPAIR_JWT"
               /\ Decode(analyst.bearer.jwt.payload).iat = analyst.now
               /\ analyst.bearer.jwt.signature[4]
                    = <<ReplaceEscapedNewlines(env.privateKey)>>)
  /\ []((analyst.pc # "none" /\ analyst.question # <<>>) =>
          (analyst.bearer = NoBearer <=> (~PatSet /\ ~(KeyResolvable /\ UserSet))))
  /\ []((analyst.bearer = NoBearer /\ analyst.agentErr # NoAgentErr) =>
          analyst.agentErr = NoAuthErr)
  /\ [][(analyst.pc # "fetching" /\ analyst'.pc = "fetching") =>
          UNCHANGED <<connection, cachedToken, cachedAuthMethod, conns>>]_vars

C19_Witness ==
  /\ analyst.pc = "fetching"
  /\ analyst.now = 2
  /\ analyst.bearer.tokenType = "KEYPAIR_JWT"
  /\ Decode(analyst.bearer.jwt.payload).iat = 2
  /\ env.tokenFile = "tok1"

\* C21: every connection opened under the browser method was announced by the
\* warning before its connect was issued; a call whose connect fails ends,
\* and when the failure is the one it ends on, it raises that error.
C21_BrowserLoudAndExplicit ==
  /\ [](\A p \in Procs :
         (pc[p] \in {"connecting", "executing"} /\ authMethod[p] = "browser") =>
           /\ conns[conn[p]].options.authenticator = "EXTERNALBROWSER"
           /\ conns[conn[p]].options.warned)
  /\ []((caught.site = "connect" /\ Quiet) =>
          (~lastCall.ok /\ lastCall.err = caught.err /\ lastCall.err # NoErr))
  /\ \A p \in Procs : (pc[p] = "connecting") ~> (pc[p] = "idle")

C21_Witness ==
  /\ detectAuthMethod(env) = "browser"
  /\ caught.site = "connect"
  /\ Quiet
  /\ ~lastCall.ok
  /\ lastCall.err = SqlErr

\* C22: when generateJWT runs and no key resolves at that moment, the key
\* having gone since getAuthToken tested it included, it throws "Private key
\* not available for JWT generation" and no token is produced: the request
\* goes on without a bearer token and never reaches the agent call.
C22_NoKeyNoToken ==
  [][(analyst.pc = "signing" /\ analyst'.pc # "signing"
        /\ ~KeyTruthy(analystGetPrivateKey(env))) =>
       /\ analyst'.agentErr = NoKeyErr
       /\ analyst'.bearer = NoBearer
       /\ analyst'.pc # "fetching"]_vars

C22_Witness ==
  /\ analyst.agentErr = NoKeyErr
  /\ analyst.bearer = NoBearer
  /\ analyst.pc = "querying"
  /\ ~KeyTruthy(analystGetPrivateKey(env))

\* The token of the request under way is one generateJWT signed.
Signed == analyst.pc = "fetching" /\ analyst.bearer.tokenType = "KEYPAIR_JWT"

\* C23: a signed token has the header {alg: RS256, typ: JWT} and a payload
\* whose sub is the qualified identity, whose iss is that identity followed by
\* ".SHA256:" and the fingerprint of the key it was signed with, whose iat is
\* the time of the call and whose exp is iat + 3600; header and payload are
\* the same for every environment with the same account, user and key at the
\* same time.
C23_JwtContent ==
  Signed =>
    LET jwt == analyst.bearer.jwt
        header == Decode(jwt.header)
        payload == Decode(jwt.payload)
        key == jwt.signature[4]
    IN  /\ jwt.ok
        /\ header = [alg |-> "RS256", typ |-> "JWT"]
        /\ payload.sub = qualifiedUsername(env.account, env.user)
        /\ KeyTruthy(key)
        /\ payload.iss = payload.sub \o <<".", "S", "H", "A", "2", "5", "6", ":">>
                           \o Fingerprint(key[1])
        /\ payload.iat = analyst.now
        /\ payload.exp = payload.iat + 3600
        /\ jwt.signature = RsaSign(jwt.header, jwt.payload, key)
        /\ \A e \in JwtEnvs :
             (e.account = env.account /\ e.user = env.user
                /\ analystGetPrivateKey(e) = key) =>
               /\ generateJWT(e, analyst.now).header = jwt.header
               /\ generateJWT(e, analyst.now).payload = jwt.payload

C23_Witness ==
  /\ Signed
  /\ analyst.now = 2
  /\ Decode(analyst.bearer.jwt.payload).exp = 3602
  /\ env.user = "Alice"
  /\ env.account = <<"X", "Y", ".", "U", "S", ".", "a", "w", "s">>
  /\ analyst.bearer.jwt.signature[4] = <<<<"F", "I", "L", "E">>>>

\* str without its ending suf, when it ends with suf.
StripSuffix(str, suf) ==
  IF Len(str) >= Len(suf) /\ SubSeq(str, Len(str) - Len(suf) + 1, Len(str)) = suf
  THEN SubSeq(str, 1, Len(str) - Len(suf))
  ELSE str

\* C24: the subject of a signed token is N.USER, where N is the account in
\* upper case, without a ".GLOBAL" suffix if it has one, cut before the first
\* "." that remains, and USER is the user name in upper case.
C24_AccountNormalization ==
  Signed =>
    Decode(analyst.bearer.jwt.payload).sub
      = FirstSegment(StripSuffix(toUpperCase(env.account), DotGlobal), <<".">>)
          \o <<".">> \o toUpperCase(Chars(env.user))

\* A literal backslash-n is left in str.
EscapedNewlineIn(str) ==
  \E i \in 1..(Len(str) - 1) : str[i] = "\\" /\ str[i + 1] = "n"

\* C25: the key a key-pair session is opened with is the inline material with
\* its literal backslash-n sequences turned into newlines, none being left,
\* whether or not a key path is set too; without inline material it is the
\* content of the file at the key path; with neither, getPrivateKey gives null
\* and no key-pair session is opened.  Both copies of getPrivateKey agree.
C25_KeyResolution ==
  /\ \A i \in Opened :
       conns[i].options.authenticator = "SNOWFLAKE_JWT" =>
         LET k == conns[i].options.privateKey
         IN  /\ k # NullKey
             /\ InlineKey => ~EscapedNewlineIn(k[1])
             /\ env.privateKey = <<"K", "\\", "n", "Y">> => k[1] = <<"K", "\n", "Y">>
             /\ env.privateKey = <<"\\", "\\", "n", "n">> => k[1] = <<"\\", "\n", "n">>
             /\ ~InlineKey => (env.keyPath # "" /\ env.keyFile # <<>> /\ k = env.keyFile)
  /\ (~InlineKey /\ env.keyPath # "" /\ env.keyFile # <<>>) =>
       getPrivateKey(env) = env.keyFile
  /\ (~InlineKey /\ ~(env.keyPath # "" /\ env.keyFile # <<>>)) =>
       (getPrivateKey(env) = NullKey /\ "keypair" \notin Resolved)
  /\ analystGetPrivateKey(env) = getPrivateKey(env)

C25_Witness ==
  \E p \in Procs :
    /\ pc[p] = "executing"
    /\ env.privateKey = <<"\\", "\\", "n", "n">>
    /\ env.keyPath # "" /\ env.keyFile = <<<<"F", "I", "L", "E">>>>
    /\ conns[conn[p]].options.authenticator = "SNOWFLAKE_JWT"
    /\ conns[conn[p]].options.privateKey = <<<<"\\", "\n", "n">>>>

\* C26: while a session is cached, cachedAuthMethod is the method its options
\* were built under and, under oauth, cachedToken is the token they hold,
\* whatever was written to the token file between the two readings.
C26_CacheDescribesSession ==
  connection # NullConn =>
    LET o == conns[connection].options
    IN  /\ cachedAuthMethod = MethodOf(o)
        /\ cachedAuthMethod = "oauth" => cachedToken = o.token

\* C27: getConnection never returns for reuse a connection that was destroyed
\* before, whatever the environment resolves to when it is called.
C27_DestroyedNeverReused ==
  \A p \in Procs :
    ~(pc[p] = "failing" /\ conn[p] = connection /\ conns[conn[p]].status = "destroyed")

\* C28: when an attempt that ran on connection X is retried while the cache
\* holds a newer live connection Y another caller put there, the retry step
\* keeps Y in the cache.
C28_RetryKeepsNewerSession ==
  [][\A p \in Procs :
       ( /\ pc[p] = "executing"
         /\ attempts'[p] = attempts[p] + 1
         /\ connection # NullConn /\ connection # conn[p]
         /\ conns[connection].status = "live" ) =>
         connection' = connection]_vars

\* C29: the step in which a statement fails with an error that is not
\* retryable leaves connection, cachedToken, cachedAuthMethod and every
\* session as they were, and a query called next, the environment being the
\* same, runs on that same connection without a new connect.
C29_NonRetryableKeepsSession ==
  /\ [][(caught'.site = "execute" /\ ~isRetryableError(caught'.err)) =>
          /\ UNCHANGED <<connection, cachedToken, cachedAuthMethod>>
          /\ \A i \in DOMAIN conns : conns'[i].status = conns[i].status]_vars
  /\ [][\A p \in Procs :
          ( /\ caught.site = "execute" /\ ~isRetryableError(caught.err)
            /\ pc[p] = "idle" /\ pc'[p] # "idle" /\ env' = env ) =>
            /\ connection # NullConn
            /\ connection' = connection
            /\ pc'[p] = "executing"
            /\ conn'[p] = connection
            /\ conns[connection].status = "live"
            /\ Len(conns') = Len(conns)]_vars

C29_Witness ==
  /\ caught.site = "execute" /\ caught.err = SqlErr /\ caught.budgetLeft
  /\ Quiet
  /\ connection # NullConn
  /\ conns[connection].status = "live"
  /\ cachedAuthMethod = "oauth" /\ cachedToken = "tok1"
  /\ detectAuthMethod(env) = "oauth" /\ env.tokenFile = "tok1"

\* C30: a request that was answered (400, agent answer, fallback answer, 504
\* or 500) has no timer armed any more; the 400 is given before any agent
\* call or query; a request has no response until it is answered, and once
\* it is answered nothing of it changes: no second response, no timer firing.
C30_TimerNeverOutlives ==
  /\ [](analyst.pc = "done" =>
          /\ analyst.timer \in {"cleared", "fired"}
          /\ analyst.response.status \in {200, 400, 500, 504})
  /\ [](analyst.response.status = 400 =>
          (analyst.queries = 0 /\ analyst.bearer = NoBearer /\ ~analyst.agentOk))
  /\ [](analyst.pc # "done" => analyst.response = NoResponse)
  /\ [][(analyst.pc = "done" /\ analyst'.now = analyst.now) => analyst' = analyst]_vars

C30_Witness ==
  /\ analyst.pc = "done"
  /\ analyst.now = 2
  /\ analyst.response.status = 500
  /\ analyst.queries = 1
  /\ analyst.timer = "cleared"

====
